---- MODULE Spec2Model ----
(***************************************************************************)
(* Chat streaming core of astroAggregate:                                  *)
(*   - lib/ai.ts        generateChatResponse / streamChatResponse          *)
(*   - api/chat route   POST: validation, ReadableStream framer            *)
(*   - chat-playground  ChatPlayground.handleSubmit: stream reassembler    *)
(*                                                                         *)
(* Text is a sequence of characters; a character is a one-character        *)
(* string, except EACUTE, which stands for U+00E9 (two bytes in UTF-8).    *)
(* A byte is the character itself for ASCII, "0xC3"/"0xA9" for EACUTE.     *)
(***************************************************************************)
EXTENDS Integers, Sequences, FiniteSets, TLC

\* ------------------------------------------------------------------ text

EACUTE == "U+00E9"
REPLACEMENT == "U+FFFD"
LeadByte == "0xC3"
ContByte == "0xA9"

RECURSIVE Flatten(_)
Flatten(ss) == IF ss = <<>> THEN <<>> ELSE Head(ss) \o Flatten(Tail(ss))

StartsWith(s, p) == Len(s) >= Len(p) /\ SubSeq(s, 1, Len(p)) = p

IsPrefix(p, s) == StartsWith(s, p)

Slice(s, n) == SubSeq(s, n + 1, Len(s))

\* TextEncoder.encode: UTF-8
EncodeChar(c) == IF c = EACUTE THEN <<LeadByte, ContByte>> ELSE <<c>>

Encode(text) == Flatten([i \in 1..Len(text) |-> EncodeChar(text[i])])

\* TextDecoder.decode(value, {stream: true}): an incomplete sequence at the end
\* of a chunk is held back in `pending`; a malformed one becomes U+FFFD.
Min(S) == CHOOSE i \in S : \A j \in S : i <= j

\* the text of `bytes`, and the incomplete sequence at their end (the recursion
\* goes from one non-ASCII byte to the next; ASCII bytes decode to themselves)
RECURSIVE DecodeBytes(_)
DecodeBytes(bytes) ==
    LET special == {i \in 1..Len(bytes) : bytes[i] \in {LeadByte, ContByte}}
    IN IF special = {} THEN [text |-> bytes, pending |-> <<>>]
       ELSE LET i == Min(special)
                pre == SubSeq(bytes, 1, i - 1)
                after(c, k) == LET r == DecodeBytes(SubSeq(bytes, k, Len(bytes)))
                               IN [text |-> pre \o <<c>> \o r.text, pending |-> r.pending]
            IN IF bytes[i] = ContByte THEN after(REPLACEMENT, i + 1)
               ELSE IF i = Len(bytes) THEN [text |-> pre, pending |-> <<LeadByte>>]
               ELSE IF bytes[i + 1] = ContByte THEN after(EACUTE, i + 2)
               ELSE after(REPLACEMENT, i + 1)

Decode(pending, value) == DecodeBytes(pending \o value)

\* mutant: a line feed is written raw into the JSON string
Escape_RawLineFeed(c) ==
    CASE c = "\"" -> <<"\\", "\"">>
      [] c = "\\" -> <<"\\", "\\">>
      [] OTHER -> <<c>>

\* JSON.stringify of a string
Escape(c) ==
    CASE c = "\"" -> <<"\\", "\"">>
      [] c = "\\" -> <<"\\", "\\">>
      [] c = "\n" -> <<"\\", "n">>
      [] c = "\r" -> <<"\\", "r">>
      [] c = "\t" -> <<"\\", "t">>
      [] c = "\f" -> <<"\\", "f">>
      [] OTHER -> <<c>>

QuoteJSON(s) == <<"\"">> \o Flatten([i \in 1..Len(s) |-> Escape(s[i])]) \o <<"\"">>

ContentKey == <<"{", "\"", "c", "o", "n", "t", "e", "n", "t", "\"", ":">>

\* JSON.stringify({ content: chunk })
StringifyContent(chunk) == ContentKey \o QuoteJSON(chunk) \o <<"}">>

DataPrefix == <<"d", "a", "t", "a", ":", " ">>
Terminator == <<"\n", "\n">>
DoneData == <<"[", "D", "O", "N", "E", "]">>

\* `data: ${JSON.stringify({ content: chunk })}\n\n`
FrameText(chunk) == DataPrefix \o StringifyContent(chunk) \o Terminator

\* "data: [DONE]\n\n"
DoneText == DataPrefix \o DoneData \o Terminator

\* JSON.parse of a string literal, from the character after its opening quote
Unescape(c) ==
    CASE c = "\"" -> "\""
      [] c = "\\" -> "\\"
      [] c = "/" -> "/"
      [] c = "n" -> "\n"
      [] c = "r" -> "\r"
      [] c = "t" -> "\t"
      [] c = "f" -> "\f"
      [] OTHER -> "invalid"

RECURSIVE ParseString(_, _, _)
ParseString(s, i, acc) ==
    IF i > Len(s) THEN [ok |-> FALSE, value |-> <<>>, next |-> i]
    ELSE IF s[i] = "\"" THEN [ok |-> TRUE, value |-> acc, next |-> i + 1]
    ELSE IF s[i] \in {"\n", "\r", "\t", "\f"}
         THEN [ok |-> FALSE, value |-> <<>>, next |-> i]
    ELSE IF s[i] = "\\"
         THEN IF i = Len(s) \/ Unescape(s[i + 1]) = "invalid"
              THEN [ok |-> FALSE, value |-> <<>>, next |-> i]
              ELSE ParseString(s, i + 2, Append(acc, Unescape(s[i + 1])))
    ELSE ParseString(s, i + 1, Append(acc, s[i]))

\* const { content } = JSON.parse(data), for data of the shape {"content":"..."};
\* anything else raises (the catch of line 169 swallows it)
ParseContent(data) ==
    IF ~StartsWith(data, ContentKey \o <<"\"">>)
    THEN [ok |-> FALSE, content |-> <<>>]
    ELSE LET r == ParseString(data, Len(ContentKey) + 2, <<>>)
         IN IF r.ok /\ r.next = Len(data) /\ data[r.next] = "}"
            THEN [ok |-> TRUE, content |-> r.value]
            ELSE [ok |-> FALSE, content |-> <<>>]

\* buffer.split("\n\n"): the segments between non-overlapping terminators,
\* scanning from the left; always at least one segment
RECURSIVE Split(_)
Split(s) ==
    LET at == {i \in 1..(Len(s) - 1) : s[i] = "\n" /\ s[i + 1] = "\n"}
    IN IF at = {} THEN <<s>>
       ELSE <<SubSeq(s, 1, Min(at) - 1)>> \o Split(SubSeq(s, Min(at) + 2, Len(s)))

\* ------------------------------------------------------------ lib/ai.ts

KnownProviders == {"openai", "anthropic", "google"}

Msg(role, content) == [role |-> role, content |-> content]

\* An upstream client call as the provider's SDK receives it. `system` and
\* `last` hold zero or one text (undefined, or the value).
OpenAICall(messages, streaming) ==
    [client |-> "openai", stream |-> streaming, system |-> <<>>,
     messages |-> messages, last |-> <<>>]

\* mutant: the last system message is taken instead of the first
FindSystem_Last(messages) ==
    LET sys == SelectSeq(messages, LAMBDA m : m.role = "system")
    IN IF sys = <<>> THEN <<>> ELSE <<sys[Len(sys)].content>>

\* messages.find((m) => m.role === "system")
FindSystem(messages) ==
    LET sys == SelectSeq(messages, LAMBDA m : m.role = "system")
    IN IF sys = <<>> THEN <<>> ELSE <<sys[1].content>>

\* messages.filter((m) => m.role !== "system")
OtherMessages(messages) == SelectSeq(messages, LAMBDA m : m.role # "system")

AnthropicCall(messages, streaming) ==
    [client |-> "anthropic", stream |-> streaming, system |-> FindSystem(messages),
     messages |-> OtherMessages(messages), last |-> <<>>]

\* messages.slice(0, -1).map(m => ({role: m.role === "user" ? "user" : "model", ...}))
GoogleHistory(messages) ==
    [i \in 1..(Len(messages) - 1) |->
        Msg(IF messages[i].role = "user" THEN "user" ELSE "model", messages[i].content)]

GoogleCall(messages, streaming) ==
    [client |-> "google", stream |-> streaming, system |-> <<>>,
     messages |-> GoogleHistory(messages), last |-> <<messages[Len(messages)].content>>]

\* mutant: an unknown provider falls back to the default one
GenerateStart_FallsBack(messages, provider) ==
    IF provider = "anthropic"
    THEN [error |-> "none", calls |-> <<AnthropicCall(messages, FALSE)>>]
    ELSE IF provider = "google"
    THEN IF messages = <<>>
         THEN [error |-> "TypeError", calls |-> <<>>]
         ELSE [error |-> "none", calls |-> <<GoogleCall(messages, FALSE)>>]
    ELSE [error |-> "none", calls |-> <<OpenAICall(messages, FALSE)>>]

\* generateChatResponse up to its upstream call: the call it makes, or the
\* error it raises without making one. lastMessage.content raises a TypeError
\* when messages is empty (lastMessage is undefined).
GenerateStart(messages, provider) ==
    IF provider = "openai"
    THEN [error |-> "none", calls |-> <<OpenAICall(messages, FALSE)>>]
    ELSE IF provider = "anthropic"
    THEN [error |-> "none", calls |-> <<AnthropicCall(messages, FALSE)>>]
    ELSE IF provider = "google"
    THEN IF messages = <<>>
         THEN [error |-> "TypeError", calls |-> <<>>]
         ELSE [error |-> "none", calls |-> <<GoogleCall(messages, FALSE)>>]
    ELSE [error |-> "Unsupported AI provider", calls |-> <<>>]

\* mutant: the openai call is followed by a call to another provider
StreamStart_Failover(messages, provider) ==
    IF provider = "openai"
    THEN [error |-> "none",
          calls |-> <<OpenAICall(messages, TRUE), AnthropicCall(messages, TRUE)>>]
    ELSE IF provider = "anthropic"
    THEN [error |-> "none", calls |-> <<AnthropicCall(messages, TRUE)>>]
    ELSE IF provider = "google"
    THEN IF messages = <<>>
         THEN [error |-> "TypeError", calls |-> <<>>]
         ELSE [error |-> "none", calls |-> <<GoogleCall(messages, TRUE)>>]
    ELSE [error |-> "Unsupported AI provider", calls |-> <<>>]

\* streamChatResponse from the first next() up to its upstream call
StreamStart(messages, provider) ==
    IF provider = "openai"
    THEN [error |-> "none", calls |-> <<OpenAICall(messages, TRUE)>>]
    ELSE IF provider = "anthropic"
    THEN [error |-> "none", calls |-> <<AnthropicCall(messages, TRUE)>>]
    ELSE IF provider = "google"
    THEN IF messages = <<>>
         THEN [error |-> "TypeError", calls |-> <<>>]
         ELSE [error |-> "none", calls |-> <<GoogleCall(messages, TRUE)>>]
    ELSE [error |-> "Unsupported AI provider", calls |-> <<>>]

\* An upstream stream event: incremental text, or anything else (metadata,
\* tool calls, a chunk with no delta content).
TextEvent(t) == [kind |-> "text", text |-> t]
OtherEvent == [kind |-> "other", text |-> <<>>]

\* Whether streamChatResponse yields on event e (lines 131-134, 153-160, 185-188)
Yields(provider, e) ==
    IF provider = "anthropic" THEN e.kind = "text"
    ELSE e.kind = "text" /\ e.text # <<>>

\* generateChatResponse's return value for an upstream response made of `blocks`
CompleteText(provider, blocks) ==
    LET texts == SelectSeq(blocks, LAMBDA b : b.kind = "text")
    IN IF provider = "anthropic"
       THEN IF texts = <<>> THEN <<>> ELSE texts[1].text
       ELSE Flatten([i \in 1..Len(texts) |-> texts[i].text])

\* ---------------------------------------------------------------- bounds

\* upstream events per streamed response
MaxEvents == 2
\* frames an arbitrary server puts on the wire (SpecWire)
MaxWireFrames == 2

\* texts an upstream event may carry: a two-byte character; a quote, a
\* backslash, an n and a blank line; the empty string
Texts == {<<EACUTE>>, <<"\"", "\\", "n", "\n", "\n">>, <<>>}

UpstreamEvents == {TextEvent(t) : t \in Texts} \cup {OtherEvent}

\* what the user may type: nothing, blanks, a message
Inputs == {<<>>, <<" ">>, <<"h", "i">>}

SystemMsg == Msg("system", <<"S">>)
UserMsg == Msg("user", <<"U">>)
AssistantMsg == Msg("assistant", <<"A">>)

MessageLists ==
    {<<>>, <<UserMsg>>, <<SystemMsg, UserMsg>>,
     <<UserMsg, Msg("system", <<"T">>), AssistantMsg, SystemMsg, UserMsg>>}

\* request bodies: unparsable JSON, the JSON value null, or an object whose
\* messages member is missing, not an array, or an array, and whose provider
\* member is absent or any string
Bodies ==
    {[kind |-> k, messages |-> "missing", items |-> <<>>, provider |-> <<>>] :
        k \in {"unparsable", "null"}}
    \cup {[kind |-> "object", messages |-> m, items |-> <<>>, provider |-> p] :
            m \in {"missing", "nonarray"}, p \in {<<>>, <<"openai">>, <<"mistral">>}}
    \cup {[kind |-> "object", messages |-> "array", items |-> ms, provider |-> p] :
            ms \in MessageLists,
            p \in {<<>>, <<"openai">>, <<"anthropic">>, <<"google">>, <<"mistral">>}}

\* upstream responses to a complete call, as content blocks: no block, one
\* block, several text blocks, a non-text block before the text
Responses ==
    {<<>>} \cup {<<e>> : e \in UpstreamEvents}
    \cup {<<TextEvent(<<EACUTE>>), TextEvent(<<EACUTE>>)>>,
          <<OtherEvent, TextEvent(<<EACUTE>>)>>}

NoBody == [kind |-> "none", messages |-> "missing", items |-> <<>>, provider |-> <<>>]

\* ----------------------------------------------------------------- state

VARIABLES
    \* server: api/chat route
    request,     \* the HTTP request in flight: [sent, auth, body]
    response,    \* what POST returned: [status, kind]
    gen,         \* the streamChatResponse generator: [pc, provider, error, consumer]
    calls,       \* upstream client calls made so far
    events,      \* upstream events delivered to the generator so far
    yielded,     \* fragments the generator has yielded so far
    ctrl,        \* ReadableStream controller: [state, queue, closeRequested]
    body,        \* every chunk put on the response body so far
    \* transport
    net,         \* bytes that left the server and the reader has not read yet
    netEnd,      \* "open", "eof" (clean end) or "error"
    \* client: ChatPlayground
    messages, input, isLoading, provider,
    toasts,      \* toast.error calls so far
    clientPc,    \* "idle", "fetching", "reading"
    buffer,      \* handleSubmit's buffer
    pending,     \* bytes the TextDecoder holds back
    sawDone,     \* line 159's break has been taken
    outcome,     \* how handleSubmit ended: "none", "notOk", "done", "error"
    \* library callers of generateChatResponse
    lib          \* the call: [called, messages, provider, error, blocks, text]

serverVars == <<request, response, gen, calls, events, yielded, ctrl, body>>
netVars == <<net, netEnd>>
clientVars == <<messages, input, isLoading, provider, toasts, clientPc, buffer,
                pending, sawDone, outcome>>
vars == <<serverVars, netVars, clientVars, lib>>

NoRequest == [sent |-> FALSE, auth |-> FALSE, body |-> NoBody]
NoResponse == [status |-> 0, kind |-> "none"]
NoGen == [pc |-> "none", provider |-> "none", error |-> "none", consumer |-> "none"]
NoCtrl == [state |-> "none", queue |-> <<>>, closeRequested |-> FALSE]
NoLib == [called |-> FALSE, messages |-> <<>>, provider |-> "none", error |-> "none",
          blocks |-> <<>>, text |-> <<>>]

\* useState initial values (chat-playground lines 97-100); nothing received yet
Init ==
    /\ request = NoRequest
    /\ response = NoResponse
    /\ gen = NoGen
    /\ calls = <<>>
    /\ events = <<>>
    /\ yielded = <<>>
    /\ ctrl = NoCtrl
    /\ body = <<>>
    /\ net = <<>>
    /\ netEnd = "open"
    /\ messages = <<>>
    /\ input = <<>>
    /\ isLoading = FALSE
    /\ provider = "google"
    /\ toasts = <<>>
    /\ clientPc = "idle"
    /\ buffer = <<>>
    /\ pending = <<>>
    /\ sawDone = FALSE
    /\ outcome = "none"
    /\ lib = NoLib

\* ------------------------------------------------- server: api/chat route

JsonResponse(status) == [status |-> status, kind |-> "json"]
StreamResponse == [status |-> 200, kind |-> "event-stream"]
\* a response without a body (a 204): response.body is null
EmptyResponse == [status |-> 204, kind |-> "empty"]

\* const { messages, provider = "openai", model } = body
ProviderOf(b) == IF b.provider = <<>> THEN "openai" ELSE b.provider[1]

\* mutant: the body is parsed and validated before the caller is authenticated
PostStatus_ParseFirst(req) ==
    IF req.body.kind \in {"unparsable", "null"} THEN 500
    ELSE IF req.body.messages # "array" THEN 400
    ELSE IF ~req.auth THEN 401
    ELSE 200

\* POST's checks before it creates the stream: auth (401), request.json() and
\* the destructuring of its value (a throw is caught at line 54: 500), the
\* messages check (400); 200 when all pass
PostStatus(req) ==
    IF ~req.auth THEN 401
    ELSE IF req.body.kind \in {"unparsable", "null"} THEN 500
    ELSE IF req.body.messages # "array" THEN 400
    ELSE 200

\* controller.enqueue / close / error of a ReadableStream: close waits for the
\* queue to drain, error drops whatever is still queued
Enqueue(c, chunk) == [c EXCEPT !.queue = Append(@, chunk)]

Close(c) ==
    IF c.queue = <<>> THEN [c EXCEPT !.state = "closed"]
    ELSE [c EXCEPT !.closeRequested = TRUE]

Error(c) == [state |-> "errored", queue |-> <<>>, closeRequested |-> FALSE]

\* the reader cancels the stream (the HTTP layer does so when the client goes
\* away): the queue is dropped and the stream takes no more chunks. The route
\* passes no cancel() to the ReadableStream, so nothing else happens then.
Cancel(c) == [state |-> "cancelled", queue |-> <<>>, closeRequested |-> FALSE]

\* mutant: enqueue on a cancelled stream is accepted silently
EnqueueThrows_Never(c) == FALSE

\* controller.enqueue throws a TypeError unless the stream is readable and
\* close() has not been called
EnqueueThrows(c) == c.state # "readable" \/ c.closeRequested

\* start(controller): what the loop enqueues on a fragment (line 37), what it
\* does when the generator returns (lines 39-40) and when it throws (line 42)
FramerOnYield(f) == <<Encode(FrameText(f))>>

\* mutant: the terminal frame is forgotten
FramerOnReturn_NoSentinel == <<>>

FramerOnReturn == <<Encode(DoneText)>>

\* mutant: a throw ends the stream like a return
FramerOnThrow_AsReturn(c) == Close(Enqueue(c, Encode(DoneText)))

FramerOnThrow(c) == Error(c)

RECURSIVE EnqueueAll(_, _)
EnqueueAll(c, chunks) ==
    IF chunks = <<>> THEN c ELSE EnqueueAll(Enqueue(c, Head(chunks)), Tail(chunks))

\* An HTTP caller posts a request (SpecServer: any caller, any body)
HttpRequest(auth, b) ==
    /\ ~request.sent
    /\ ~lib.called
    /\ request' = [sent |-> TRUE, auth |-> auth, body |-> b]
    /\ UNCHANGED <<response, gen, calls, events, yielded, ctrl, body>>
    /\ UNCHANGED <<netVars, clientVars, lib>>

\* POST handles the request and returns its Response. With a stream, start()
\* has run the generator up to its first await: the upstream call is made, or
\* the generator has thrown and the catch of line 41 is about to run.
POST ==
    /\ request.sent
    /\ response.kind = "none"
    /\ LET status == PostStatus(request)
           st == StreamStart(request.body.items, ProviderOf(request.body))
       IN IF status # 200
          THEN /\ response' = JsonResponse(status)
               /\ UNCHANGED <<gen, calls, ctrl>>
          ELSE /\ response' = StreamResponse
               /\ calls' = calls \o st.calls
               /\ gen' = [pc |-> IF st.error = "none" THEN "awaiting" ELSE "threw",
                          provider |-> ProviderOf(request.body),
                          error |-> st.error,
                          consumer |-> "framer"]
               /\ ctrl' = [NoCtrl EXCEPT !.state = "readable"]
    /\ UNCHANGED <<request, events, yielded, body>>
    /\ UNCHANGED <<netVars, clientVars, lib>>

\* The upstream delivers an event; the generator yields it or skips it; the
\* framer, when it is the consumer, enqueues a frame for a yielded fragment.
\* When enqueue throws, the for await of line 36 is left through the
\* generator's return(), which leaves the generator's own for await and so
\* returns the upstream iterator; the catch of line 41 then calls
\* controller.error, which does nothing on a stream that is not readable.
UpstreamEvent(e) ==
    /\ gen.pc = "awaiting"
    /\ Len(events) < MaxEvents
    /\ events' = Append(events, e)
    /\ yielded' = IF Yields(gen.provider, e) THEN Append(yielded, e.text) ELSE yielded
    /\ IF Yields(gen.provider, e) /\ gen.consumer = "framer"
       THEN IF EnqueueThrows(ctrl)
            THEN /\ gen' = [gen EXCEPT !.pc = "released"]
                 /\ UNCHANGED <<ctrl, body>>
            ELSE /\ ctrl' = EnqueueAll(ctrl, FramerOnYield(e.text))
                 /\ body' = body \o FramerOnYield(e.text)
                 /\ UNCHANGED gen
       ELSE UNCHANGED <<gen, ctrl, body>>
    /\ UNCHANGED <<request, response, calls>>
    /\ UNCHANGED <<netVars, clientVars, lib>>

\* The upstream stream ends: the generator returns; the framer, when it is the
\* consumer, enqueues the terminal frame and closes
UpstreamEnd ==
    /\ gen.pc = "awaiting"
    /\ gen' = [gen EXCEPT !.pc = "returned"]
    /\ IF gen.consumer = "framer" /\ ~EnqueueThrows(ctrl)
       THEN /\ ctrl' = Close(EnqueueAll(ctrl, FramerOnReturn))
            /\ body' = body \o FramerOnReturn
       ELSE UNCHANGED <<ctrl, body>>
    /\ UNCHANGED <<request, response, calls, events, yielded>>
    /\ UNCHANGED <<netVars, clientVars, lib>>

\* The upstream call is rejected, or its stream fails: the generator throws
UpstreamFail ==
    /\ gen.pc = "awaiting"
    /\ gen' = [gen EXCEPT !.pc = "threw", !.error = "upstream"]
    /\ UNCHANGED <<request, response, calls, events, yielded, ctrl, body>>
    /\ UNCHANGED <<netVars, clientVars, lib>>

\* catch (error) { controller.error(error) }
FramerCatch ==
    /\ gen.pc = "threw"
    /\ ctrl.state = "readable"
    /\ ctrl' = FramerOnThrow(ctrl)
    /\ UNCHANGED <<request, response, gen, calls, events, yielded, body>>
    /\ UNCHANGED <<netVars, clientVars, lib>>

\* The HTTP layer reads the next chunk of the response stream and sends it
HttpPull ==
    /\ ctrl.queue # <<>>
    /\ net' = net \o Head(ctrl.queue)
    /\ ctrl' = IF Len(ctrl.queue) = 1 /\ ctrl.closeRequested
               THEN [ctrl EXCEPT !.queue = <<>>, !.state = "closed"]
               ELSE [ctrl EXCEPT !.queue = Tail(@)]
    /\ UNCHANGED <<request, response, gen, calls, events, yielded, body>>
    /\ UNCHANGED <<netEnd, clientVars, lib>>

\* The HTTP layer finds the stream closed (it ends the response) or errored
\* (it aborts the connection)
HttpEnd ==
    /\ netEnd = "open"
    /\ ctrl.state \in {"closed", "errored"}
    /\ netEnd' = IF ctrl.state = "closed" THEN "eof" ELSE "error"
    /\ UNCHANGED <<serverVars, net, clientVars, lib>>

\* The client goes away before the response has ended: the HTTP layer
\* cancels the response stream
HttpCancel ==
    /\ response.kind = "event-stream"
    /\ ctrl.state = "readable"
    /\ netEnd = "open"
    /\ ctrl' = Cancel(ctrl)
    /\ UNCHANGED <<request, response, gen, calls, events, yielded, body>>
    /\ UNCHANGED <<netVars, clientVars, lib>>

\* A library caller calls generateChatResponse; the upstream answers with
\* `blocks`, or rejects the call
Generate(ms, p, blocks, rejected) ==
    /\ ~request.sent
    /\ ~lib.called
    /\ LET st == GenerateStart(ms, p)
       IN /\ calls' = calls \o st.calls
          /\ lib' = [called |-> TRUE, messages |-> ms, provider |-> p,
                     error |-> IF st.error # "none" THEN st.error
                               ELSE IF rejected THEN "upstream" ELSE "none",
                     blocks |-> IF st.error = "none" /\ ~rejected
                                THEN blocks ELSE <<>>,
                     text |-> IF st.error = "none" /\ ~rejected
                              THEN CompleteText(p, blocks) ELSE <<>>]
    /\ UNCHANGED <<request, response, gen, events, yielded, ctrl, body>>
    /\ UNCHANGED <<netVars, clientVars>>

\* The library caller then iterates streamChatResponse over the same inputs:
\* the first next() runs the generator up to its upstream call
LibStream ==
    /\ lib.called
    /\ gen.pc = "none"
    /\ LET st == StreamStart(lib.messages, lib.provider)
       IN /\ calls' = calls \o st.calls
          /\ gen' = [pc |-> IF st.error = "none" THEN "awaiting" ELSE "threw",
                     provider |-> lib.provider,
                     error |-> st.error,
                     consumer |-> "caller"]
    /\ UNCHANGED <<request, response, events, yielded, ctrl, body>>
    /\ UNCHANGED <<netVars, clientVars, lib>>

\* ------------------------------------------- client: ChatPlayground

Whitespace == {" ", "\n", "\t", "\r"}

\* !input.trim()
IsBlank(s) == \A i \in 1..Len(s) : s[i] \in Whitespace

Front(s) == SubSeq(s, 1, Len(s) - 1)

\* mutant: a line that is not a well-formed frame ends the loop over the lines
RECURSIVE ProcessLines_StopOnBad(_, _)
ProcessLines_StopOnBad(lines, content) ==
    IF lines = <<>> THEN [content |-> content, done |-> FALSE]
    ELSE LET line == Head(lines)
             data == Slice(line, 6)
             parsed == ParseContent(data)
         IN IF ~StartsWith(line, DataPrefix)
            THEN [content |-> content, done |-> FALSE]
            ELSE IF data = DoneData
            THEN [content |-> content, done |-> TRUE]
            ELSE IF parsed.ok
            THEN ProcessLines_StopOnBad(Tail(lines), content \o parsed.content)
            ELSE [content |-> content, done |-> FALSE]

\* for (const line of lines) { ... } of lines 156-173: the content of the last
\* message after the loop, and whether the loop was left at the sentinel
RECURSIVE ProcessLines(_, _)
ProcessLines(lines, content) ==
    IF lines = <<>> THEN [content |-> content, done |-> FALSE]
    ELSE LET line == Head(lines)
             data == Slice(line, 6)
             parsed == ParseContent(data)
         IN IF ~StartsWith(line, DataPrefix)
            THEN ProcessLines(Tail(lines), content)
            ELSE IF data = DoneData
            THEN [content |-> content, done |-> TRUE]
            ELSE IF parsed.ok
            THEN ProcessLines(Tail(lines), content \o parsed.content)
            ELSE ProcessLines(Tail(lines), content)

\* mutant: the incomplete remainder of the previous chunk is not kept
OnChunk_NoRemainder(buf, pend, content, value) ==
    LET d == Decode(pend, value)
        lines == Split(d.text)
        r == ProcessLines(Front(lines), content)
    IN [buffer |-> lines[Len(lines)], pending |-> d.pending,
        content |-> r.content, done |-> r.done]

\* One turn of the while loop on a chunk `value`, lines 151-173: decode,
\* append to the buffer, split, keep the remainder, process the frames
OnChunk(buf, pend, content, value) ==
    LET d == Decode(pend, value)
        lines == Split(buf \o d.text)
        r == ProcessLines(Front(lines), content)
    IN [buffer |-> lines[Len(lines)], pending |-> d.pending,
        content |-> r.content, done |-> r.done]

\* mutant: the update lands on the first message
SetLastContent_First(ms, content) ==
    [ms EXCEPT ![1] = [@ EXCEPT !.content = content]]

\* setMessages of lines 163-168: the last message's content becomes `content`
SetLastContent(ms, content) ==
    [ms EXCEPT ![Len(ms)] = [@ EXCEPT !.content = content]]

LastContent(ms) == ms[Len(ms)].content

\* the user types (the input is disabled while isLoading, line 254)
SetInput(v) ==
    /\ clientPc = "idle"
    /\ ~isLoading
    /\ ~request.sent
    /\ v # input
    /\ input' = v
    /\ UNCHANGED <<messages, isLoading, provider, toasts, clientPc, buffer, pending,
                   sawDone, outcome>>
    /\ UNCHANGED <<serverVars, netVars, lib>>

\* the user picks a provider (line 191)
SetProvider(p) ==
    /\ clientPc = "idle"
    /\ ~request.sent
    /\ p # provider
    /\ provider' = p
    /\ UNCHANGED <<messages, input, isLoading, toasts, clientPc, buffer, pending,
                   sawDone, outcome>>
    /\ UNCHANGED <<serverVars, netVars, lib>>

\* handleSubmit, lines 110-126, up to the await of fetch; `auth` is whether the
\* browser's session resolves to an identity at the server
HandleSubmit(auth) ==
    /\ clientPc = "idle"
    /\ ~request.sent
    /\ ~IsBlank(input)
    /\ ~isLoading
    /\ messages' = Append(messages, Msg("user", input))
    /\ input' = <<>>
    /\ isLoading' = TRUE
    /\ request' = [sent |-> TRUE, auth |-> auth,
                   body |-> [kind |-> "object", messages |-> "array",
                             items |-> Append(messages, Msg("user", input)),
                             provider |-> <<provider>>]]
    /\ clientPc' = "fetching"
    /\ UNCHANGED <<provider, toasts, buffer, pending, sawDone, outcome>>
    /\ UNCHANGED <<response, gen, calls, events, yielded, ctrl, body>>
    /\ UNCHANGED <<netVars, lib>>

\* response.ok
Ok(r) == r.status \in 200..299

\* mutant: the path without a reader leaves without the finally block
NoReader_StillLoading ==
    /\ toasts' = Append(toasts, "Something went wrong.")
    /\ clientPc' = "idle"
    /\ outcome' = "error"
    /\ UNCHANGED <<messages, buffer, isLoading>>

\* `throw new Error("No reader available")` of line 139: the catch of line
\* 175, then the finally
NoReader ==
    /\ toasts' = Append(toasts, "Something went wrong.")
    /\ isLoading' = FALSE
    /\ clientPc' = "idle"
    /\ outcome' = "error"
    /\ UNCHANGED <<messages, buffer>>

\* fetch resolves, lines 128-145
FetchResolve ==
    /\ clientPc = "fetching"
    /\ response.kind # "none"
    /\ IF ~Ok(response)
       THEN /\ toasts' = Append(toasts, IF response.status = 401
                                        THEN "You must be logged in to chat."
                                        ELSE "Failed to send message.")
            /\ isLoading' = FALSE
            /\ clientPc' = "idle"
            /\ outcome' = "notOk"
            /\ UNCHANGED <<messages, buffer>>
       ELSE IF response.kind = "empty"
       THEN NoReader
       ELSE /\ messages' = Append(messages, Msg("assistant", <<>>))
            /\ buffer' = <<>>
            /\ clientPc' = "reading"
            /\ UNCHANGED <<toasts, isLoading, outcome>>
    /\ UNCHANGED <<input, provider, pending, sawDone>>
    /\ UNCHANGED <<serverVars, netVars, lib>>

\* fetch rejects (the request never gets an answer): the catch of line 175,
\* then the finally
FetchReject ==
    /\ clientPc = "fetching"
    /\ response.kind = "none"
    /\ toasts' = Append(toasts, "Something went wrong.")
    /\ isLoading' = FALSE
    /\ clientPc' = "idle"
    /\ outcome' = "error"
    /\ UNCHANGED <<messages, input, provider, buffer, pending, sawDone>>
    /\ UNCHANGED <<serverVars, netVars, lib>>

\* reader.read() resolves with the next n bytes, lines 148-173
ReaderRead(n) ==
    /\ clientPc = "reading"
    /\ n \in 1..Len(net)
    /\ \E r \in {OnChunk(buffer, pending, LastContent(messages), SubSeq(net, 1, n))} :
          /\ pending' = r.pending
          /\ buffer' = r.buffer
          /\ messages' = SetLastContent(messages, r.content)
          /\ sawDone' = (sawDone \/ r.done)
    /\ net' = Slice(net, n)
    /\ UNCHANGED <<input, isLoading, provider, toasts, clientPc, outcome>>
    /\ UNCHANGED <<serverVars, netEnd, lib>>

\* reader.read() resolves with done, line 149, then the finally of line 178
ReaderDone ==
    /\ clientPc = "reading"
    /\ net = <<>>
    /\ netEnd = "eof"
    /\ isLoading' = FALSE
    /\ clientPc' = "idle"
    /\ outcome' = "done"
    /\ UNCHANGED <<messages, input, provider, toasts, buffer, pending, sawDone>>
    /\ UNCHANGED <<serverVars, netVars, lib>>

\* reader.read() rejects: the catch of line 175, then the finally
ReaderError ==
    /\ clientPc = "reading"
    /\ net = <<>>
    /\ netEnd = "error"
    /\ toasts' = Append(toasts, "Something went wrong.")
    /\ isLoading' = FALSE
    /\ clientPc' = "idle"
    /\ outcome' = "error"
    /\ UNCHANGED <<messages, input, provider, buffer, pending, sawDone>>
    /\ UNCHANGED <<serverVars, netVars, lib>>

\* ------------------------------------- an arbitrary server and transport

\* frames a server or an intermediary may put on the wire: content frames, the
\* sentinel, a frame without the prefix, a frame whose payload is cut short
WireFrames ==
    {FrameText(<<"a">>), FrameText(<<"\"", "\\", "n">>), DoneText,
     StringifyContent(<<"a">>) \o Terminator,
     DataPrefix \o ContentKey \o <<"\"", "a">> \o Terminator}

WireRespond(status) ==
    /\ request.sent
    /\ response.kind = "none"
    /\ response' = IF status = 200 THEN StreamResponse
                   ELSE IF status = 204 THEN EmptyResponse
                   ELSE JsonResponse(status)
    /\ UNCHANGED <<request, gen, calls, events, yielded, ctrl, body>>
    /\ UNCHANGED <<netVars, clientVars, lib>>

WireSend(f) ==
    /\ response.kind = "event-stream"
    /\ netEnd = "open"
    /\ Len(body) < MaxWireFrames
    /\ body' = Append(body, Encode(f))
    /\ net' = net \o Encode(f)
    /\ UNCHANGED <<request, response, gen, calls, events, yielded, ctrl>>
    /\ UNCHANGED <<netEnd, clientVars, lib>>

WireEnd(how) ==
    /\ response.kind = "event-stream"
    /\ netEnd = "open"
    /\ netEnd' = how
    /\ UNCHANGED <<serverVars, net, clientVars, lib>>

\* -------------------------------------------------------- specifications

\* the chat client against the chat endpoint
Next ==
    \/ \E v \in Inputs : SetInput(v)
    \/ \E p \in KnownProviders : SetProvider(p)
    \/ \E auth \in BOOLEAN : HandleSubmit(auth)
    \/ POST
    \/ \E e \in UpstreamEvents : UpstreamEvent(e)
    \/ UpstreamEnd
    \/ UpstreamFail
    \/ FramerCatch
    \/ HttpPull
    \/ HttpEnd
    \/ FetchResolve
    \/ \E n \in 1..Len(net) : ReaderRead(n)
    \/ ReaderDone
    \/ ReaderError

Spec == Init /\ [][Next]_vars

\* the endpoint and the library under any caller
NextServer ==
    \/ \E auth \in BOOLEAN, b \in Bodies : HttpRequest(auth, b)
    \/ POST
    \/ \E e \in UpstreamEvents : UpstreamEvent(e)
    \/ UpstreamEnd
    \/ UpstreamFail
    \/ FramerCatch
    \/ HttpPull
    \/ HttpEnd
    \/ \E ms \in MessageLists, p \in KnownProviders \cup {"mistral"},
          blocks \in Responses, rejected \in BOOLEAN :
            Generate(ms, p, blocks, rejected)
    \/ LibStream

SpecServer == Init /\ [][NextServer]_vars

\* the catch block of start() runs once the generator's promise is rejected
SpecServerFair == SpecServer /\ WF_vars(FramerCatch)

\* the upstream makes a step: an event, the end of the stream, a failure
UpstreamProgress ==
    \/ \E e \in UpstreamEvents : UpstreamEvent(e)
    \/ UpstreamEnd
    \/ UpstreamFail

\* the endpoint under a client that may disconnect at any time
NextCancel ==
    \/ \E auth \in BOOLEAN, b \in Bodies : HttpRequest(auth, b)
    \/ POST
    \/ \E e \in UpstreamEvents : UpstreamEvent(e)
    \/ UpstreamEnd
    \/ UpstreamFail
    \/ FramerCatch
    \/ HttpPull
    \/ HttpEnd
    \/ HttpCancel

SpecCancel == Init /\ [][NextCancel]_vars

\* an upstream stream that is being iterated keeps delivering until it ends
\* or fails
SpecCancelFair == SpecCancel /\ WF_vars(FramerCatch) /\ WF_vars(UpstreamProgress)

\* the chat client against any server and transport
NextWire ==
    \/ \E v \in Inputs : SetInput(v)
    \/ \E auth \in BOOLEAN : HandleSubmit(auth)
    \/ \E status \in {200, 401, 500} : WireRespond(status)
    \/ \E f \in WireFrames : WireSend(f)
    \/ \E how \in {"eof", "error"} : WireEnd(how)
    \/ FetchResolve
    \/ \E n \in 1..Len(net) : ReaderRead(n)
    \/ ReaderDone
    \/ ReaderError

SpecWire == Init /\ [][NextWire]_vars

\* the request is answered or fetch gives up; the transport ends or fails
Settles ==
    \/ \E status \in {200, 204, 401, 500} : WireRespond(status)
    \/ FetchReject
    \/ \E how \in {"eof", "error"} : WireEnd(how)

\* handleSubmit goes on after an await: after fetch, after a reader.read()
\* that found the stream ended or failed
Continues ==
    \/ FetchResolve
    \/ ReaderDone
    \/ ReaderError

\* a reader.read() on which bytes are waiting has resolved
CaughtUp == clientPc = "reading" => net = <<>>

\* the chat client against any server and transport, every way handleSubmit
\* can end included; each read takes all the bytes that have arrived
NextClient ==
    \/ \E v \in Inputs : SetInput(v)
    \/ \E auth \in BOOLEAN : HandleSubmit(auth)
    \/ \E status \in {200, 204, 401, 500} : WireRespond(status)
    \/ \E f \in WireFrames : WireSend(f)
    \/ \E how \in {"eof", "error"} : WireEnd(how)
    \/ FetchResolve
    \/ FetchReject
    \/ ReaderRead(Len(net))
    \/ ReaderDone
    \/ ReaderError

SpecClient == Init /\ [][NextClient]_vars

\* the continuations of handleSubmit's awaits run once their promises settle:
\* the loop of line 147 never leaves arrived bytes unread for ever; fetch
\* settles, and the transport ends or fails in the end
SpecClientFair ==
    /\ SpecClient
    /\ WF_vars(Continues)
    /\ []<>CaughtUp
    /\ WF_vars(Settles)

\* ----------------------------------------------------------------- claims

Frames(fs) == [i \in 1..Len(fs) |-> Encode(FrameText(fs[i]))]

HasSentinel(chunks) == \E i \in 1..Len(chunks) : chunks[i] = Encode(DoneText)

Framing == gen.consumer = "framer"

\* C1: while streamChatResponse yields without raising, the response body is
\* one frame per fragment, in emission order; once it has returned, the body
\* is those frames followed by exactly one terminal frame, the stream is
\* closed (or closing, until the queue is drained), and nothing is enqueued
\* after that
C1_BodyIsFramesThenSentinel ==
    /\ Framing /\ gen.pc = "awaiting" => body = Frames(yielded)
    /\ Framing /\ gen.pc = "returned" =>
          /\ body = Append(Frames(yielded), Encode(DoneText))
          /\ ctrl.state = "closed" \/ (ctrl.state = "readable" /\ ctrl.closeRequested)

C1_Witness ==
    /\ Framing
    /\ gen.pc = "returned"
    /\ Len(yielded) = 2
    /\ yielded[1] # yielded[2]
    /\ ctrl.state = "closed"

\* C2: if the fragment sequence raises, before or after the first fragment,
\* the framer signals an error to the transport, and the response never
\* carries the terminal frame nor is closed cleanly
C2_ThrowErrorsWithoutSentinel ==
    /\ [](Framing /\ gen.pc = "threw" =>
            /\ ~HasSentinel(body)
            /\ ctrl.state \in {"readable", "errored"}
            /\ ~ctrl.closeRequested)
    /\ (Framing /\ gen.pc = "threw") ~> (ctrl.state = "errored")

C2_Witness ==
    /\ Framing
    /\ gen.pc = "threw"
    /\ gen.error = "upstream"
    /\ Len(yielded) >= 1
    /\ ctrl.state = "errored"

\* True when the reassembler ended the way it ends after a clean stream:
\* idle, no error reported
LooksClean == ~isLoading /\ toasts = <<>>

\* C3: the frames of the fragments [f1..fn] plus the terminal frame, fed to the
\* reassembler, give an assistant message whose content is f1+...+fn: while
\* reading, the content is the concatenation of the first k fragments for some
\* k (each appended once, in order); at the end it is all of them, the
\* sentinel has been seen and the client is idle with no error reported
C3_FramingRoundTrip ==
    /\ clientPc = "reading" =>
          \E k \in 0..Len(yielded) :
              LastContent(messages) = Flatten(SubSeq(yielded, 1, k))
    /\ outcome = "done" =>
          /\ LastContent(messages) = Flatten(yielded)
          /\ sawDone
          /\ LooksClean

C3_Witness ==
    /\ outcome = "done"
    /\ yielded = <<<<"\"", "\\", "n", "\n", "\n">>, <<EACUTE>>>>
    /\ LastContent(messages) = <<"\"", "\\", "n", "\n", "\n", EACUTE>>

\* C4: however the framed stream is cut into transport chunks, the content is
\* the one a single chunk holding the whole stream gives: in every state of
\* the reassembler, whatever chunks it has consumed so far, taking the rest of
\* the stream at once ends with the content of the whole stream taken at once
C4_SplitChunkRobust ==
    (clientPc = "reading" \/ outcome = "done") /\ ctrl.state # "errored" =>
        OnChunk(buffer, pending, LastContent(messages),
                net \o Flatten(ctrl.queue)).content
            = OnChunk(<<>>, <<>>, <<>>, Flatten(body)).content

\* a chunk has ended inside the two-byte character of the second frame
C4_Witness ==
    /\ clientPc = "reading"
    /\ gen.pc = "returned"
    /\ pending = <<LeadByte>>
    /\ buffer # <<>>
    /\ LastContent(messages) # <<>>

\* C6 (as claimed): when the upstream fails after the fragments [f1..fk],
\* k >= 1, the assistant message ends with content f1+...+fk and the failure
\* is reported
C6_FragmentsBeforeFailureDelivered ==
    Framing /\ gen.pc = "threw" /\ Len(yielded) >= 1 /\ outcome # "none" =>
        /\ LastContent(messages) = Flatten(yielded)
        /\ ~LooksClean

\* C5 (as claimed): when the reader reports done and the sentinel has not
\* been seen, the client does not end in the state a clean completion leaves
\* (idle, no error reported)
C5_EndWithoutSentinelIsMarked ==
    outcome = "done" /\ ~sawDone => ~LooksClean

\* C7 (as claimed): the content of the assistant message only grows by
\* appending, and once the sentinel has been seen no message changes any more
C7_GrowsThenFrozen ==
    [][/\ clientPc = "reading" /\ clientPc' = "reading" =>
            IsPrefix(LastContent(messages), LastContent(messages'))
       /\ sawDone => messages' = messages]_vars

EmptyMessages(b) == b.kind = "object" /\ b.messages = "array" /\ b.items = <<>>

\* C8 (as claimed): a request or a library call with an empty messages list
\* fails as an invalid request (no stream is opened, the call raises) and no
\* upstream call is made
C8_EmptyMessagesNoUpstream ==
    /\ request.sent /\ request.auth /\ EmptyMessages(request.body) =>
          /\ calls = <<>>
          /\ response.kind # "event-stream"
    /\ lib.called /\ lib.messages = <<>> =>
          /\ calls = <<>>
          /\ lib.error # "none"
          /\ gen.pc \in {"none", "threw"}

\* C9: with a provider that is not one of the three known ones,
\* generateChatResponse and streamChatResponse both fail with the
\* unsupported-provider error, and no upstream call has been made
C9_UnknownProviderFails ==
    /\ lib.called /\ lib.provider \notin KnownProviders =>
          /\ lib.error = "Unsupported AI provider"
          /\ calls = <<>>
    /\ gen.pc # "none" /\ gen.provider \notin KnownProviders =>
          /\ gen.pc = "threw"
          /\ gen.error = "Unsupported AI provider"
          /\ yielded = <<>>
          /\ calls = <<>>

\* both functions have been called with "mistral"
C9_Witness ==
    /\ lib.called
    /\ lib.provider = "mistral"
    /\ lib.messages # <<>>
    /\ gen.pc = "threw"
    /\ gen.consumer = "caller"

\* C10 (as claimed): for an authenticated, parsable request whose messages are
\* missing or not an array, or whose provider is unknown, the response is a
\* JSON error and no event stream is opened
C10_SelectionErrorsAreJson ==
    /\ response.kind # "none"
    /\ request.auth
    /\ request.body.kind = "object"
    /\ (request.body.messages # "array"
        \/ ProviderOf(request.body) \notin KnownProviders)
    => /\ response.kind = "json"
       /\ response.status # 200
       /\ ctrl.state = "none"

\* C11: an unauthenticated request, whatever its body (valid, invalid or
\* unparsable), is answered with the 401 JSON response; no stream is opened,
\* the generator is never started and no upstream call is made
C11_UnauthenticatedIs401 ==
    request.sent /\ ~request.auth /\ response.kind # "none" =>
        /\ response = JsonResponse(401)
        /\ ctrl = NoCtrl
        /\ gen = NoGen
        /\ calls = <<>>
        /\ body = <<>>

\* an unauthenticated request with an unparsable body has been answered
C11_Witness ==
    /\ request.sent
    /\ ~request.auth
    /\ request.body.kind = "unparsable"
    /\ response.kind # "none"

\* the message list the caller passed: the library call's, or the request's
SourceMessages == IF lib.called THEN lib.messages ELSE request.body.items

\* positions of ms that hold a system message, and those that do not
SystemAt(ms) == {i \in 1..Len(ms) : ms[i].role = "system"}
DialogueAt(ms) == (1..Len(ms)) \ SystemAt(ms)

\* the position in ms of the k-th message that is not a system message
NthDialogue(ms, k) ==
    CHOOSE i \in DialogueAt(ms) : Cardinality({j \in DialogueAt(ms) : j <= i}) = k

\* C12: every call the anthropic adapter makes, complete or streaming, carries
\* as instruction the content of the first system message of the list (none
\* when there is none) and as history exactly the user and assistant messages
\* in their original order, no system message among them
C12_SystemSeparated ==
    \A c \in 1..Len(calls) : calls[c].client = "anthropic" =>
        LET ms == SourceMessages
            first == CHOOSE i \in SystemAt(ms) : \A j \in SystemAt(ms) : i <= j
        IN /\ calls[c].system =
                 IF SystemAt(ms) = {} THEN <<>> ELSE <<ms[first].content>>
           /\ Len(calls[c].messages) = Cardinality(DialogueAt(ms))
           /\ \A k \in 1..Len(calls[c].messages) :
                 calls[c].messages[k] = ms[NthDialogue(ms, k)]
           /\ \A k \in 1..Len(calls[c].messages) :
                 calls[c].messages[k].role \in {"user", "assistant"}

\* both paths have called anthropic with a list holding two system messages,
\* neither of them first, around user and assistant messages
C12_Witness ==
    /\ Len(calls) = 2
    /\ calls[1].client = "anthropic" /\ ~calls[1].stream
    /\ calls[2].client = "anthropic" /\ calls[2].stream
    /\ Cardinality(SystemAt(SourceMessages)) = 2
    /\ 1 \notin SystemAt(SourceMessages)
    /\ calls[2].system = <<<<"T">>>>
    /\ Len(calls[2].messages) = 3

\* C13 (as claimed): when the upstream streams the very blocks it returned to
\* the complete call, for any supported provider, the concatenation of the
\* fragments streamChatResponse yielded equals generateChatResponse's text
C13_StreamEqualsComplete ==
    /\ lib.called
    /\ lib.error = "none"
    /\ lib.provider \in KnownProviders
    /\ gen.consumer = "caller"
    /\ gen.pc = "returned"
    /\ events = lib.blocks
    => Flatten(yielded) = lib.text

\* C14 (as claimed): whatever the provider, the response body never holds a
\* frame whose content is the empty string
C14_NoFrameForEmptyFragment ==
    Framing => \A i \in 1..Len(body) : body[i] # Encode(FrameText(<<>>))

\* frames of fragments that sit in the stream's queue, not yet read by the
\* HTTP layer
QueuedFragments == {i \in 1..Len(ctrl.queue) : ctrl.queue[i] # Encode(DoneText)}

\* C15 (as claimed): at every point of a streaming response at most one
\* fragment has been pulled from the generator and not yet taken by the
\* transport: the queue never holds the frames of two fragments
C15_AtMostOneFragmentAhead ==
    Framing => Cardinality(QueuedFragments) <= 1

Cancelled == ctrl.state = "cancelled"

WireTexts == {<<"a">>, <<"\"", "\\", "n">>}

\* what a wire frame should add to the content: its text when it is a
\* well-formed content frame, nothing otherwise
FrameAdds(chunk) ==
    IF \E t \in WireTexts : chunk = Encode(FrameText(t))
    THEN CHOOSE t \in WireTexts : chunk = Encode(FrameText(t))
    ELSE <<>>

\* the wire frame is neither a content frame nor the sentinel
NonConforming(chunk) == FrameAdds(chunk) = <<>> /\ chunk # Encode(DoneText)

\* the reader has taken everything a 200 response has carried so far
AllRead ==
    /\ response = StreamResponse
    /\ clientPc = "reading" \/ outcome \in {"done", "error"}
    /\ net = <<>>

\* C17: on a stream without sentinel, however it is cut into chunks, a frame
\* without the `data: ` prefix or with a payload that does not parse adds
\* nothing and raises nothing: the content is the concatenation of the texts
\* of the well-formed frames, those after a bad frame included, and no error
\* is reported unless the transport itself fails
C17_BadFrameSkipped ==
    AllRead /\ ~HasSentinel(body) =>
        /\ LastContent(messages) = Flatten([i \in 1..Len(body) |-> FrameAdds(body[i])])
        /\ buffer = <<>>
        /\ netEnd # "error" => toasts = <<>>
        /\ outcome # "error" => toasts = <<>>

\* a non-conforming frame came first and the valid frame after it was appended
C17_Witness ==
    /\ AllRead
    /\ Len(body) = 2
    /\ NonConforming(body[1])
    /\ body[2] = Encode(FrameText(<<"a">>))
    /\ LastContent(messages) = <<"a">>

\* C18: a request makes at most one upstream call, a streaming one to the
\* client of the provider it selected, whether the stream then runs to its
\* end, fails at the call or fails midway; likewise each of the two library
\* functions makes at most one call, to the provider it was given
C18_AtMostOneUpstreamCall ==
    /\ request.sent =>
          /\ Len(calls) <= 1
          /\ \A i \in 1..Len(calls) :
                calls[i].client = ProviderOf(request.body) /\ calls[i].stream
          /\ gen.pc \in {"awaiting", "returned"} => Len(calls) = 1
    /\ lib.called =>
          /\ Cardinality({i \in 1..Len(calls) : calls[i].stream}) <= 1
          /\ Cardinality({i \in 1..Len(calls) : ~calls[i].stream}) <= 1
          /\ \A i \in 1..Len(calls) : calls[i].client = lib.provider

\* the upstream failed after a fragment and the stream was errored: still
\* the one call
C18_Witness ==
    /\ request.sent
    /\ gen.pc = "threw"
    /\ gen.error = "upstream"
    /\ ctrl.state = "errored"
    /\ yielded # <<>>
    /\ Len(calls) = 1

C20_OnlyLastContentChanges ==
    /\ [][clientPc = "reading" =>
            /\ Len(messages') = Len(messages)
            /\ \A i \in 1..(Len(messages) - 1) : messages'[i] = messages[i]
            /\ messages'[Len(messages)].role = messages[Len(messages)].role]_vars
    /\ [][clientPc = "fetching" =>
            \/ messages' = messages
            \/ /\ Ok(response)
               /\ messages' = Append(messages, Msg("assistant", <<>>))]_vars
    /\ [](clientPc = "reading" =>
            /\ messages[Len(messages)].role = "assistant"
            /\ Front(messages) = request.body.items)
    /\ [](outcome = "notOk" => messages = request.body.items)

\* content has been appended to the placeholder that follows the user message
C20_Witness ==
    /\ clientPc = "reading"
    /\ Len(messages) = 2
    /\ messages[1] = Msg("user", <<"h", "i">>)
    /\ messages[2].role = "assistant"
    /\ Len(messages[2].content) > 1

====
